---- MODULE Spec2Model ----
(***************************************************************************)
(* celery_pubsub.pubsub: the PubSubManager (registry `subscribed`, dispatch *)
(* cache `jobs`, gate `enabled`) and the topic-pattern translation          *)
(* `_topic_to_re`, with the part of Python's `re` that the translated       *)
(* patterns exercise.                                                        *)
(*                                                                         *)
(* Strings are sequences of one-character strings.                          *)
(***************************************************************************)
EXTENDS Integers, Sequences, FiniteSets, TLC

VARIABLES
    subscribed,   \* PubSubManager.subscribed: set of <<topic, compiled re, task>>
    jobs,         \* PubSubManager.jobs: topic -> group (sequence of signatures)
    enabled,      \* PubSubManager.enabled
    last,         \* observation of the call that has just returned
    hist,         \* history of earlier calls (what the properties' preconditions speak of)
    mPattern,     \* matcher development: the pattern given to _topic_to_re
    mTopic,       \* matcher development: the topic given to Pattern.match
    mResult,      \* matcher development: "pending", "error", "match", "nomatch"
    thr,          \* concurrent development: thread -> the call it is running
    res           \* concurrent development: thread -> outcome of its last call

vars == <<subscribed, jobs, enabled, last, hist, mPattern, mTopic, mResult, thr, res>>

mgrVars == <<subscribed, jobs, enabled, last, hist>>
matchVars == <<mPattern, mTopic, mResult>>
threadVars == <<thr, res>>

(***************************************************************************)
(* Bounds                                                                  *)
(***************************************************************************)
MaxPatLen == 3
MaxTopLen == 4

NL == "\n"
BS == "\\"

\* characters of the enumerated patterns / topics
PatAlphabet == {"a", ".", "*", "#", "(", ")"}
TopAlphabet == {"a", ".", NL}

RECURSIVE SeqsUpTo(_, _)
SeqsUpTo(S, n) ==
    IF n = 0 THEN {<<>>}
    ELSE LET shorter == SeqsUpTo(S, n - 1)
         IN  shorter \cup {Append(s, c) : s \in {x \in shorter : Len(x) = n - 1}, c \in S}

(***************************************************************************)
(* str.replace for a one-character needle                                   *)
(***************************************************************************)
RECURSIVE Replace(_, _, _)
Replace(s, old, new) ==
    IF s = <<>> THEN <<>>
    ELSE (IF Head(s) = old THEN new ELSE <<Head(s)>>) \o Replace(Tail(s), old, new)

\* the translation with `*` written as `.+`
re_topic_star_any(topic) ==
    Replace(Replace(Replace(topic, ".", <<BS, ".">>),
                    "*", <<".", "+">>),
            "#", <<".", "+">>)

\* topic.replace(".", r"\.").replace("*", r"[^.]+").replace("#", r".+")
re_topic(topic) ==
    Replace(Replace(Replace(topic, ".", <<BS, ".">>),
                    "*", <<"[", "^", ".", "]", "+">>),
            "#", <<".", "+">>)

\* r"^{}$".format(re_topic)
re_source(topic) == <<"^">> \o re_topic(topic) \o <<"$">>

(***************************************************************************)
(* re.compile on the sources that re_source produces from PatAlphabet       *)
(* (and from literal characters): a flat list of items, groups kept as      *)
(* open/close marks (they hold no alternation and are never repeated), or   *)
(* re.error.                                                                *)
(***************************************************************************)
Item(op, c) == [op |-> op, c |-> c, plus |-> FALSE]
ReError == [ok |-> FALSE, code |-> <<>>]

RECURSIVE ParseRe(_, _, _, _)
ParseRe(src, i, depth, acc) ==
    IF i > Len(src)
    THEN IF depth = 0 THEN [ok |-> TRUE, code |-> acc]
         ELSE ReError                       \* missing ), unterminated subpattern
    ELSE LET c == src[i] IN
      CASE c = "^" -> ParseRe(src, i + 1, depth, Append(acc, Item("at_beginning", "")))
        [] c = "$" -> ParseRe(src, i + 1, depth, Append(acc, Item("at_end", "")))
        [] c = BS ->
             IF i = Len(src) THEN ReError   \* bad escape (end of pattern)
             ELSE ParseRe(src, i + 2, depth, Append(acc, Item("literal", src[i + 1])))
        [] c = "[" ->
             \* the only set the translation writes is [^.]
             IF i + 3 <= Len(src) /\ SubSeq(src, i, i + 3) = <<"[", "^", ".", "]">>
             THEN ParseRe(src, i + 4, depth, Append(acc, Item("not_literal", ".")))
             ELSE ReError
        [] c = "." -> ParseRe(src, i + 1, depth, Append(acc, Item("any", "")))
        [] c = "+" ->
             IF acc = <<>> THEN ReError     \* nothing to repeat
             ELSE LET prev == acc[Len(acc)] IN
                  IF prev.op \in {"literal", "not_literal", "any"} /\ ~prev.plus
                  THEN ParseRe(src, i + 1, depth,
                               [acc EXCEPT ![Len(acc)] = [prev EXCEPT !.plus = TRUE]])
                  ELSE ReError              \* nothing to repeat / multiple repeat
        [] c = "(" -> ParseRe(src, i + 1, depth + 1, Append(acc, Item("open", "")))
        [] c = ")" ->
             IF depth = 0 THEN ReError      \* unbalanced parenthesis
             ELSE ParseRe(src, i + 1, depth - 1, Append(acc, Item("close", "")))
        [] OTHER -> ParseRe(src, i + 1, depth, Append(acc, Item("literal", c)))

re_compile(src) == ParseRe(src, 1, 0, <<>>)

\* _topic_to_re whose result compares by object identity: compiled while the
\* cache holds an entry it is another object than the one compiled while the
\* cache was empty (a second end anchor tells the two apart and matches alike)
topic_to_re_by_identity(topic) ==
    LET re == re_compile(re_source(topic))
    IN  IF re.ok /\ DOMAIN jobs # {}
        THEN [re EXCEPT !.code = Append(@, Item("at_end", ""))]
        ELSE re

\* PubSubManager._topic_to_re
topic_to_re(topic) == re_compile(re_source(topic))

(***************************************************************************)
(* re.Pattern.match: a match anchored at the start of the string, by        *)
(* backtracking over the items.  No flags: `.` is any character but a       *)
(* newline, `$` is the end of the string or just before a newline that      *)
(* ends it.                                                                 *)
(***************************************************************************)
AtomAccepts(item, ch) ==
    CASE item.op = "literal"     -> ch = item.c
      [] item.op = "not_literal" -> ch # item.c
      [] item.op = "any"         -> ch # NL
      [] OTHER                   -> FALSE

RECURSIVE MatchFrom(_, _, _, _)
MatchFrom(code, i, s, j) ==
    IF i > Len(code) THEN TRUE
    ELSE LET item == code[i] IN
      CASE item.op = "at_beginning" -> j = 1 /\ MatchFrom(code, i + 1, s, j)
        [] item.op = "at_end" ->
             /\ \/ j = Len(s) + 1
                \/ j = Len(s) /\ s[j] = NL
             /\ MatchFrom(code, i + 1, s, j)
        [] item.op \in {"open", "close"} -> MatchFrom(code, i + 1, s, j)
        [] OTHER ->
             IF item.plus
             THEN \E k \in 1..(Len(s) - j + 1) :
                     /\ \A m \in j..(j + k - 1) : AtomAccepts(item, s[m])
                     /\ MatchFrom(code, i + 1, s, j + k)
             ELSE /\ j <= Len(s)
                  /\ AtomAccepts(item, s[j])
                  /\ MatchFrom(code, i + 1, s, j + 1)

\* job[1].match(topic), truthiness of the result
re_match(re, topic) == MatchFrom(re.code, 1, topic, 1)

(***************************************************************************)
(* PubSubManager                                                            *)
(***************************************************************************)
\* the tasks, patterns and topics of the calls
\* a task is identified by the name it is registered under
T1 == <<"t", "1">>
T2 == <<"t", "2">>
Tasks == {T1, T2}
StarPattern == <<"a", ".", "*">>
HashPattern == <<"a", ".", "#">>
BadPattern == <<"(">>
SubPatterns == {StarPattern, HashPattern, BadPattern}
TopicAA == <<"a", ".", "a">>
TopicAAA == <<"a", ".", "a", ".", "a">>
PubTopics == {TopicAA, TopicAAA}

\* the arguments every publish of the manager scenario passes
ScenarioArgs == <<"x">>

NoJobs == [t \in {} |-> <<>>]
NoTask == <<"-">>

\* key = (topic, self._topic_to_re(topic), task)
Key(topic, task) == <<topic, topic_to_re(topic), task>>

\* every order in which `for job in self.subscribed` can visit the entries E
RECURSIVE Orders(_)
Orders(E) ==
    IF E = {} THEN {<<>>}
    ELSE UNION {{<<job>> \o rest : rest \in Orders(E \ {job})} : job \in E}

\* job[2].s(): the signature of a task, with no argument bound
Signature(task) == [task |-> task, args |-> <<>>]

\* group.delay(*args) / group.apply(args=args): the invocations dispatched,
\* each signature of the group with the arguments of the call appended to
\* its own; the group itself is left as it was
Bind(group, args) == [n \in DOMAIN group |-> [group[n] EXCEPT !.args = @ \o args]]

\* _gen_jobs that appends one signature per matching handler, however many
\* of its entries match
gen_jobs_once_per_task(registry, topic) ==
    LET matched == {job \in registry : job[2].ok /\ re_match(job[2], topic)}
        handlers == {job[3] : job \in matched}
    IN  {[n \in 1..Len(o) |-> Signature(o[n])] : o \in Orders(handlers)}

\* PubSubManager._gen_jobs: the lists `jobs` the loop can build for `topic`
\* (one signature job[2].s() per entry whose pattern matches, in visiting order)
gen_jobs(registry, topic) ==
    LET matched == {job \in registry : job[2].ok /\ re_match(job[2], topic)}
    IN  {[n \in 1..Len(o) |-> Signature(o[n][3])] : o \in Orders(matched)}

\* job[1].match(topic) needs a compiled pattern in job[1]
gen_jobs_raises(registry) == \E job \in registry : ~job[2].ok

Observe(op, topic, task) ==
    [op |-> op, topic |-> topic, task |-> task, raised |-> FALSE,
     gate |-> enabled, consulted |-> FALSE, scanned |-> FALSE, stale |-> FALSE,
     old |-> FALSE, present |-> FALSE, args |-> <<>>, declared |-> <<>>,
     dispatched |-> <<>>]

\* observation of a publish / publish_now call
Called(op, topic, args) == [Observe(op, topic, NoTask) EXCEPT !.args = args]

\* the entry whose calls the history follows
WatchTopic == StarPattern
WatchTask == T1

\* history of the calls subscribe/unsubscribe(WatchTopic, WatchTask) that
\* returned: "never" called, subscribe called "once", called "again" with no
\* unsubscribe in between, "removed" by an unsubscribe
WatchedSubscribe(h, topic, task) ==
    IF topic = WatchTopic /\ task = WatchTask
    THEN [h EXCEPT !.watch = IF h.watch \in {"once", "again"} THEN "again" ELSE "once"]
    ELSE h

WatchedUnsubscribe(h, topic, task) ==
    IF topic = WatchTopic /\ task = WatchTask
    THEN [h EXCEPT !.watch = IF h.watch = "never" THEN "never" ELSE "removed"]
    ELSE h

\* self.jobs = {}
Keep(cache) == cache
Invalidate(cache) == NoJobs

\* self.subscribed.discard(key)
DiscardNothing(registry, key) == registry
Discard(registry, key) == registry \ {key}

MgrInit ==
    /\ subscribed = {}
    /\ jobs = NoJobs
    /\ enabled = TRUE
    /\ last = Observe("init", <<>>, NoTask)
    /\ hist = [watch  |-> "never",
               premut |-> NoJobs,
               filled |-> NoJobs,
               gate   |-> "open"]

\* history: an entry was added or removed while the cache held `cached`;
\* premut keeps, for each topic not resolved since, whether the group it had
\* then held WatchTask
Mutated(h, cached) ==
    [h EXCEPT !.premut = h.premut @@
                 [t \in DOMAIN cached |-> \E n \in DOMAIN cached[t] : cached[t][n].task = WatchTask],
              !.filled = NoJobs,
              !.gate = IF enabled THEN h.gate ELSE "closed_mutated"]

Stale(h, topic) == topic \in DOMAIN h.premut /\ h.premut[topic]

\* history: `topic` has been resolved by a publish with the gate open
Resolved(h, topic) ==
    [h EXCEPT !.premut = [t \in (DOMAIN h.premut) \ {topic} |-> h.premut[t]]]

\* history: the scan of a publish called with `args` filled the cache for
\* `topic`; filled keeps these arguments until the next change of the registry
Filled(h, topic, args) == [h EXCEPT !.filled = (topic :> args) @@ h.filled]

\* set_enabled that also empties the registry when the gate closes
SetEnabledDropsRegistry(e) ==
    /\ enabled' = e
    /\ subscribed' = IF e THEN subscribed ELSE {}
    /\ last' = [Observe("set_enabled", <<>>, NoTask) EXCEPT !.gate = e]
    /\ hist' = [hist EXCEPT !.gate =
                   IF ~e THEN (IF enabled THEN "closed" ELSE hist.gate)
                   ELSE CASE hist.gate = "closed" -> "reopened"
                          [] hist.gate = "closed_mutated" -> "reopened_mutated"
                          [] OTHER -> hist.gate]
    /\ UNCHANGED jobs

\* PubSubManager.set_enabled
SetEnabled(e) ==
    /\ enabled' = e
    /\ last' = [Observe("set_enabled", <<>>, NoTask) EXCEPT !.gate = e]
    /\ hist' = [hist EXCEPT !.gate =
                   IF ~e THEN (IF enabled THEN "closed" ELSE hist.gate)
                   ELSE CASE hist.gate = "closed" -> "reopened"
                          [] hist.gate = "closed_mutated" -> "reopened_mutated"
                          [] OTHER -> hist.gate]
    /\ UNCHANGED <<subscribed, jobs>>

\* subscribe with the membership test inverted
SubscribeInverted(topic, task) ==
    LET re == topic_to_re(topic)
        key == <<topic, re, task>>
    IN
    IF ~re.ok
    THEN /\ last' = [Observe("subscribe", topic, task) EXCEPT !.raised = TRUE]
         /\ UNCHANGED <<subscribed, jobs, enabled, hist>>
    ELSE /\ last' = [Observe("subscribe", topic, task) EXCEPT
                        !.present = (key \in subscribed)]
         /\ IF key \in subscribed
            THEN /\ subscribed' = subscribed \cup {key}
                 /\ jobs' = Invalidate(jobs)
                 /\ hist' = WatchedSubscribe(Mutated(hist, jobs), topic, task)
            ELSE /\ UNCHANGED <<subscribed, jobs>>
                 /\ hist' = WatchedSubscribe(hist, topic, task)
         /\ UNCHANGED enabled

\* subscribe that stores the pattern and leaves its compilation to the scan
SubscribeDefersCompile(topic, task) ==
    LET re == topic_to_re(topic)
        key == <<topic, re, task>>
    IN
    /\ last' = [Observe("subscribe", topic, task) EXCEPT
                   !.present = (key \in subscribed)]
    /\ IF key \notin subscribed
       THEN /\ subscribed' = subscribed \cup {key}
            /\ jobs' = Invalidate(jobs)
            /\ hist' = WatchedSubscribe(Mutated(hist, jobs), topic, task)
       ELSE /\ UNCHANGED <<subscribed, jobs>>
            /\ hist' = WatchedSubscribe(hist, topic, task)
    /\ UNCHANGED enabled

\* the body of PubSubManager.subscribe; `call` is the observation of the call
\* that runs it
Subscribing(call, topic, task) ==
    LET re == topic_to_re(topic)
        key == <<topic, re, task>>
    IN
    IF ~re.ok
    THEN \* re.compile raised re.error inside _topic_to_re
         /\ last' = [call EXCEPT !.raised = TRUE]
         /\ UNCHANGED <<subscribed, jobs, enabled, hist>>
    ELSE /\ last' = [call EXCEPT
                        !.present = (key \in subscribed)]
         /\ IF key \notin subscribed
            THEN /\ subscribed' = subscribed \cup {key}
                 /\ jobs' = Invalidate(jobs)
                 /\ hist' = WatchedSubscribe(Mutated(hist, jobs), topic, task)
            ELSE /\ UNCHANGED <<subscribed, jobs>>
                 /\ hist' = WatchedSubscribe(hist, topic, task)
         /\ UNCHANGED enabled

\* subscribe that resets the cache also when the entry is already registered
SubscribeAlwaysInvalidates(topic, task) ==
    LET re == topic_to_re(topic)
        key == <<topic, re, task>>
    IN
    IF ~re.ok
    THEN \* re.compile raised re.error inside _topic_to_re
         /\ last' = [Observe("subscribe", topic, task) EXCEPT !.raised = TRUE]
         /\ UNCHANGED <<subscribed, jobs, enabled, hist>>
    ELSE /\ last' = [Observe("subscribe", topic, task) EXCEPT
                        !.present = (key \in subscribed)]
         /\ IF key \notin subscribed
            THEN /\ subscribed' = subscribed \cup {key}
                 /\ jobs' = Invalidate(jobs)
                 /\ hist' = WatchedSubscribe(Mutated(hist, jobs), topic, task)
            ELSE /\ jobs' = Invalidate(jobs)
                 /\ UNCHANGED subscribed
                 /\ hist' = WatchedSubscribe(hist, topic, task)
         /\ UNCHANGED enabled

\* PubSubManager.subscribe
Subscribe(topic, task) == Subscribing(Observe("subscribe", topic, task), topic, task)

\* unsubscribe that removes the entry and leaves the cache as it is
UnsubscribeKeepsCache(topic, task) ==
    LET re == topic_to_re(topic)
        key == <<topic, re, task>>
    IN
    IF ~re.ok
    THEN \* re.compile raised re.error inside _topic_to_re
         /\ last' = [Observe("unsubscribe", topic, task) EXCEPT !.raised = TRUE]
         /\ UNCHANGED <<subscribed, jobs, enabled, hist>>
    ELSE /\ last' = [Observe("unsubscribe", topic, task) EXCEPT
                        !.present = (key \in subscribed)]
         /\ IF key \in subscribed
            THEN /\ subscribed' = Discard(subscribed, key)
                 /\ UNCHANGED jobs
                 /\ hist' = WatchedUnsubscribe(Mutated(hist, jobs), topic, task)
            ELSE /\ UNCHANGED <<subscribed, jobs>>
                 /\ hist' = WatchedUnsubscribe(hist, topic, task)
         /\ UNCHANGED enabled

\* PubSubManager.unsubscribe
Unsubscribe(topic, task) ==
    LET re == topic_to_re(topic)
        key == <<topic, re, task>>
    IN
    IF ~re.ok
    THEN \* re.compile raised re.error inside _topic_to_re
         /\ last' = [Observe("unsubscribe", topic, task) EXCEPT !.raised = TRUE]
         /\ UNCHANGED <<subscribed, jobs, enabled, hist>>
    ELSE /\ last' = [Observe("unsubscribe", topic, task) EXCEPT
                        !.present = (key \in subscribed)]
         /\ IF key \in subscribed
            THEN /\ subscribed' = Discard(subscribed, key)
                 /\ jobs' = Invalidate(jobs)
                 /\ hist' = WatchedUnsubscribe(Mutated(hist, jobs), topic, task)
            ELSE /\ UNCHANGED <<subscribed, jobs>>
                 /\ hist' = WatchedUnsubscribe(hist, topic, task)
         /\ UNCHANGED enabled

\* a publish that resolves the group before it looks at the gate
DispatchResolvesFirst(op, topic, args) ==
    IF topic \in DOMAIN jobs
    THEN /\ last' = [Called(op, topic, args) EXCEPT
                        !.consulted = TRUE,
                        !.stale = (topic \in DOMAIN hist.premut),
                        !.old = Stale(hist, topic),
                        !.dispatched = IF enabled THEN Bind(jobs[topic], args) ELSE <<>>]
         /\ hist' = Resolved(hist, topic)
         /\ UNCHANGED <<subscribed, jobs, enabled>>
    ELSE \E group \in gen_jobs(subscribed, topic) :
         /\ jobs' = (topic :> group) @@ jobs
         /\ last' = [Called(op, topic, args) EXCEPT
                        !.consulted = TRUE, !.scanned = TRUE,
                        !.stale = (topic \in DOMAIN hist.premut),
                        !.old = Stale(hist, topic),
                        !.dispatched = IF enabled THEN Bind(group, args) ELSE <<>>]
         /\ hist' = Filled(Resolved(hist, topic), topic, args)
         /\ UNCHANGED <<subscribed, enabled>>

\* dispatch whose scan binds the arguments of the call into the signatures
\* it caches (job[2].s(*args))
DispatchBindsAtScan(op, topic, args) ==
    IF ~enabled
    THEN /\ last' = Called(op, topic, args)
         /\ UNCHANGED <<subscribed, jobs, enabled, hist>>
    ELSE IF topic \in DOMAIN jobs
    THEN /\ last' = [Called(op, topic, args) EXCEPT
                        !.consulted = TRUE,
                        !.stale = (topic \in DOMAIN hist.premut),
                        !.old = Stale(hist, topic),
                        !.dispatched = Bind(jobs[topic], args)]
         /\ hist' = Resolved(hist, topic)
         /\ UNCHANGED <<subscribed, jobs, enabled>>
    ELSE IF gen_jobs_raises(subscribed)
    THEN /\ last' = [Called(op, topic, args) EXCEPT
                        !.consulted = TRUE, !.scanned = TRUE, !.raised = TRUE,
                        !.stale = (topic \in DOMAIN hist.premut),
                        !.old = Stale(hist, topic)]
         /\ UNCHANGED <<subscribed, jobs, enabled, hist>>
    ELSE \E group \in gen_jobs(subscribed, topic) :
         /\ jobs' = (topic :> Bind(group, args)) @@ jobs
         /\ last' = [Called(op, topic, args) EXCEPT
                        !.consulted = TRUE, !.scanned = TRUE,
                        !.stale = (topic \in DOMAIN hist.premut),
                        !.old = Stale(hist, topic),
                        !.dispatched = Bind(group, args)]
         /\ hist' = Filled(Resolved(hist, topic), topic, args)
         /\ UNCHANGED <<subscribed, enabled>>

\* dispatch that scans the registry on every call, cached or not
DispatchAlwaysScans(op, topic, args) ==
    IF ~enabled
    THEN /\ last' = Called(op, topic, args)
         /\ UNCHANGED <<subscribed, jobs, enabled, hist>>
    ELSE IF gen_jobs_raises(subscribed)
    THEN /\ last' = [Called(op, topic, args) EXCEPT
                        !.consulted = TRUE, !.scanned = TRUE, !.raised = TRUE,
                        !.stale = (topic \in DOMAIN hist.premut),
                        !.old = Stale(hist, topic)]
         /\ UNCHANGED <<subscribed, jobs, enabled, hist>>
    ELSE \E group \in gen_jobs(subscribed, topic) :
         /\ jobs' = (topic :> group) @@ jobs
         /\ last' = [Called(op, topic, args) EXCEPT
                        !.consulted = TRUE, !.scanned = TRUE,
                        !.stale = (topic \in DOMAIN hist.premut),
                        !.old = Stale(hist, topic),
                        !.dispatched = Bind(group, args)]
         /\ hist' = Filled(Resolved(hist, topic), topic, args)
         /\ UNCHANGED <<subscribed, enabled>>

\* PubSubManager.get_jobs followed by the dispatch of the group it returns
\* (.delay for publish, .apply for publish_now); with the gate closed the
\* dispatch of celery.group([]) without a call of get_jobs
Dispatch(op, topic, args) ==
    IF ~enabled
    THEN /\ last' = Called(op, topic, args)
         /\ UNCHANGED <<subscribed, jobs, enabled, hist>>
    ELSE IF topic \in DOMAIN jobs
    THEN /\ last' = [Called(op, topic, args) EXCEPT
                        !.consulted = TRUE,
                        !.stale = (topic \in DOMAIN hist.premut),
                        !.old = Stale(hist, topic),
                        !.dispatched = Bind(jobs[topic], args)]
         /\ hist' = Resolved(hist, topic)
         /\ UNCHANGED <<subscribed, jobs, enabled>>
    ELSE IF gen_jobs_raises(subscribed)
    THEN /\ last' = [Called(op, topic, args) EXCEPT
                        !.consulted = TRUE, !.scanned = TRUE, !.raised = TRUE,
                        !.stale = (topic \in DOMAIN hist.premut),
                        !.old = Stale(hist, topic)]
         /\ UNCHANGED <<subscribed, jobs, enabled, hist>>
    ELSE \E group \in gen_jobs(subscribed, topic) :
         /\ jobs' = (topic :> group) @@ jobs
         /\ last' = [Called(op, topic, args) EXCEPT
                        !.consulted = TRUE, !.scanned = TRUE,
                        !.stale = (topic \in DOMAIN hist.premut),
                        !.old = Stale(hist, topic),
                        !.dispatched = Bind(group, args)]
         /\ hist' = Filled(Resolved(hist, topic), topic, args)
         /\ UNCHANGED <<subscribed, enabled>>

\* PubSubManager.publish
Publish(topic, args) == Dispatch("publish", topic, args)

\* PubSubManager.publish_now
PublishNow(topic, args) == Dispatch("publish_now", topic, args)

\* str.split(".", 1): the text before the first "." and the text after it, or
\* the whole text alone when it holds no "."
split_once(text) ==
    LET dots == {i \in DOMAIN text : text[i] = "."}
    IN  IF dots = {}
        THEN <<text>>
        ELSE LET i == CHOOSE d \in dots : \A e \in dots : d <= e
             IN  <<SubSeq(text, 1, i - 1), SubSeq(text, i + 1, Len(text))>>

\* app_name, module_name = func.__module__.split(".", 1): the unpacking into
\* two names raises ValueError unless the split yields two parts
unpack_raises(func) == Len(split_once(func.module)) # 2

\* f"{app_name}.{module_name}.{func.__qualname__}"
task_name(func) ==
    LET parts == split_once(func.module)
    IN  parts[1] \o <<".">> \o parts[2] \o <<".">> \o func.qualname

\* the callables handed to the decorator: a Task instance, and functions
\* defined in the modules "a.m", "a.b.m" and "m"
TaskCallable == [isTask |-> TRUE, name |-> T1, module |-> <<>>, qualname |-> <<>>]
PackageFunc == [isTask |-> FALSE, name |-> <<>>, module |-> <<"a", ".", "m">>,
                qualname |-> <<"f">>]
NestedFunc == [isTask |-> FALSE, name |-> <<>>,
               module |-> <<"a", ".", "b", ".", "m">>, qualname |-> <<"f">>]
TopLevelFunc == [isTask |-> FALSE, name |-> <<>>, module |-> <<"m">>,
                 qualname |-> <<"f">>]
Callables == {TaskCallable, PackageFunc, NestedFunc, TopLevelFunc}

\* subscribe_to(topic)(func): the decorator applied to `func`; the task made
\* by task(name=task_name)(func) is identified by that name
SubscribeTo(topic, func) ==
    IF ~func.isTask /\ unpack_raises(func)
    THEN \* ValueError, before any task exists
         /\ last' = [Observe("subscribe_to", topic, NoTask) EXCEPT !.raised = TRUE]
         /\ UNCHANGED <<subscribed, jobs, enabled, hist>>
    ELSE LET task_instance == IF func.isTask THEN func.name ELSE task_name(func)
             declared == IF func.isTask THEN <<>> ELSE task_name(func)
         IN  Subscribing([Observe("subscribe_to", topic, task_instance) EXCEPT
                             !.declared = declared],
                         topic, task_instance)

\* the threads that call the manager
Threads == {"A", "B"}

\* a thread that runs no call, and the record of a call in progress: its
\* position pc, its arguments, the key it computed, the state of its scan
\* (the iterator's size and visited entries, the list jobs built so far)
\* with the entries added to the set since the scan began, and, for the
\* properties, the registries seen since the call began, whether any
\* subscribe/unsubscribe ran during the call, and whether the list the scan
\* built is the matching set of one of the registries seen
IdleThread ==
    [pc |-> "idle", op |-> "none", topic |-> <<>>, task |-> NoTask, args |-> <<>>,
     key |-> <<>>, size |-> 0, visited |-> {}, acc |-> <<>>,
     added |-> {}, seen |-> {}, quiet |-> FALSE, scanned |-> FALSE,
     snapshot |-> FALSE]

\* the outcome of a call that returned or raised
NoResult ==
    [op |-> "none", topic |-> <<>>, error |-> "none", dispatched |-> <<>>,
     quiet |-> FALSE, exact |-> FALSE, scanned |-> FALSE, snapshot |-> FALSE]

ThreadInit ==
    /\ thr = [t \in Threads |-> IdleThread]
    /\ res = [t \in Threads |-> NoResult]

Init ==
    /\ MgrInit
    /\ ThreadInit
    /\ mPattern = <<>>
    /\ mTopic = <<>>
    /\ mResult = "idle"

Next ==
    \/ \E e \in BOOLEAN : SetEnabled(e) /\ UNCHANGED <<matchVars, threadVars>>
    \/ \E topic \in SubPatterns, task \in Tasks : Subscribe(topic, task) /\ UNCHANGED <<matchVars, threadVars>>
    \/ \E topic \in SubPatterns, task \in Tasks : Unsubscribe(topic, task) /\ UNCHANGED <<matchVars, threadVars>>
    \/ \E topic \in PubTopics : Publish(topic, ScenarioArgs) /\ UNCHANGED <<matchVars, threadVars>>
    \/ \E topic \in PubTopics : PublishNow(topic, ScenarioArgs) /\ UNCHANGED <<matchVars, threadVars>>

Spec == Init /\ [][Next]_vars

(***************************************************************************)
(* Decorator and call arguments: subscribe_to applied to callables, and    *)
(* publishes that pass different arguments.                                *)
(***************************************************************************)

ApiPatterns == {StarPattern, BadPattern}
ApiTasks == {T1, task_name(PackageFunc), task_name(NestedFunc)}
CallArgs == {<<"x">>, <<"y">>}

ApiNext ==
    \/ \E topic \in ApiPatterns, func \in Callables :
          SubscribeTo(topic, func) /\ UNCHANGED <<matchVars, threadVars>>
    \/ \E topic \in ApiPatterns, task \in ApiTasks :
          Unsubscribe(topic, task) /\ UNCHANGED <<matchVars, threadVars>>
    \/ \E topic \in PubTopics, args \in CallArgs :
          Publish(topic, args) /\ UNCHANGED <<matchVars, threadVars>>
    \/ \E topic \in PubTopics, args \in CallArgs :
          PublishNow(topic, args) /\ UNCHANGED <<matchVars, threadVars>>

ApiSpec == Init /\ [][ApiNext]_vars

(***************************************************************************)
(* Concurrent development: threads call publish, publish_now, subscribe    *)
(* and unsubscribe on the one manager; the code takes no lock, so a thread *)
(* switch can fall between any two of the steps below.  Each step is one   *)
(* access to self.subscribed or self.jobs.  The gate stays open.           *)
(***************************************************************************)
ConcPatterns == {StarPattern}
ConcTopics == {TopicAA}

Mutating(t) == thr[t].op \in {"subscribe", "unsubscribe"}
Publishing(t) == thr[t].op \in {"publish", "publish_now"}

\* `group` holds one signature per entry of `registry` matching `topic`
SnapshotOf(group, registry, topic) ==
    /\ \A task \in Tasks :
          Cardinality({n \in DOMAIN group : group[n].task = task})
            = Cardinality({job \in registry : job[3] = task /\ re_match(job[2], topic)})
    /\ \A n \in DOMAIN group : group[n].task \in Tasks

\* what the calls in progress on the other threads notice of a step of `t`
\* that made the registry `registry`
Noticed(t, registry) ==
    [o \in Threads \ {t} |->
        IF Publishing(o)
        THEN [thr[o] EXCEPT !.seen = @ \cup {registry},
                            !.added = IF thr[o].pc = "scan"
                                      THEN @ \cup (registry \ subscribed)
                                      ELSE @]
        ELSE thr[o]]

\* publish / publish_now, line 52 (54, 58): the gate is read and the call begins
BeginPublish(t, op, topic, args) ==
    /\ thr[t].pc = "idle"
    /\ IF ~enabled
       THEN /\ res' = [res EXCEPT ![t] = [NoResult EXCEPT !.op = op, !.topic = topic]]
            /\ UNCHANGED thr
       ELSE /\ thr' = [thr EXCEPT ![t] =
                         [IdleThread EXCEPT !.pc = "test", !.op = op, !.topic = topic,
                                            !.args = args, !.seen = {subscribed},
                                            !.quiet = \A o \in Threads \ {t} : ~Mutating(o)]]
            /\ res' = [res EXCEPT ![t] = NoResult]
    /\ UNCHANGED <<subscribed, jobs, enabled, last, hist, matchVars>>

\* get_jobs, line 77: topic not in self.jobs
CacheTest(t) ==
    /\ thr[t].pc = "test"
    /\ thr' = [thr EXCEPT ![t].pc = IF thr[t].topic \in DOMAIN jobs THEN "lookup" ELSE "iter"]
    /\ UNCHANGED <<subscribed, jobs, enabled, last, hist, matchVars, res>>

\* _gen_jobs, lines 82-83: jobs = [] and the iterator over self.subscribed,
\* which remembers the size of the set
ScanBegin(t) ==
    /\ thr[t].pc = "iter"
    /\ thr' = [thr EXCEPT ![t] = [@ EXCEPT !.pc = "scan", !.scanned = TRUE,
                                           !.size = Cardinality(subscribed),
                                           !.visited = {}, !.acc = <<>>,
                                           !.added = {}]]
    /\ UNCHANGED <<subscribed, jobs, enabled, last, hist, matchVars, res>>

\* _gen_jobs, lines 83-85, one turn of the loop.  The iterator raises
\* RuntimeError when the set has another size than when the loop began.
\* Otherwise it yields an entry of the set as it is now that it has not
\* yielded, or ends; the only entries it can end without are those added
\* since the loop began, behind the position it has moved to (it has not
\* moved before it yields a first entry).
ScanStep(t) ==
    /\ thr[t].pc = "scan"
    /\ IF Cardinality(subscribed) # thr[t].size
       THEN /\ thr' = [thr EXCEPT ![t] = IdleThread]
            /\ res' = [res EXCEPT ![t] =
                          [NoResult EXCEPT !.op = thr[t].op, !.topic = thr[t].topic,
                                           !.error = "RuntimeError",
                                           !.quiet = thr[t].quiet, !.scanned = TRUE]]
       ELSE /\ \/ \E job \in subscribed \ thr[t].visited :
                    thr' = [thr EXCEPT ![t] =
                              [@ EXCEPT !.visited = @ \cup {job},
                                        !.acc = IF re_match(job[2], thr[t].topic)
                                                THEN Append(@, Signature(job[3]))
                                                ELSE @]]
               \/ /\ \/ subscribed \ thr[t].visited = {}
                     \/ /\ thr[t].visited # {}
                        /\ (subscribed \ thr[t].visited) \subseteq thr[t].added
                  /\ thr' = [thr EXCEPT ![t] =
                               [@ EXCEPT !.pc = "store",
                                         !.snapshot = \E registry \in thr[t].seen :
                                             SnapshotOf(thr[t].acc, registry, thr[t].topic)]]
            /\ UNCHANGED res
    /\ UNCHANGED <<subscribed, jobs, enabled, last, hist, matchVars>>

\* _gen_jobs, line 86: self.jobs[topic] = celery.group(jobs)
CacheStore(t) ==
    /\ thr[t].pc = "store"
    /\ jobs' = (thr[t].topic :> thr[t].acc) @@ jobs
    /\ thr' = [thr EXCEPT ![t].pc = "lookup"]
    /\ UNCHANGED <<subscribed, enabled, last, hist, matchVars, res>>

\* get_jobs, line 79: return self.jobs[topic], and the dispatch of the group
\* (lines 54, 61); the subscript raises KeyError when the topic is not there
CacheLookup(t) ==
    /\ thr[t].pc = "lookup"
    /\ thr' = [thr EXCEPT ![t] = IdleThread]
    /\ res' = [res EXCEPT ![t] =
                  IF thr[t].topic \in DOMAIN jobs
                  THEN [op |-> thr[t].op, topic |-> thr[t].topic, error |-> "none",
                        dispatched |-> Bind(jobs[thr[t].topic], thr[t].args),
                        quiet |-> thr[t].quiet,
                        exact |-> SnapshotOf(jobs[thr[t].topic], subscribed, thr[t].topic),
                        scanned |-> thr[t].scanned, snapshot |-> thr[t].snapshot]
                  ELSE [NoResult EXCEPT !.op = thr[t].op, !.topic = thr[t].topic,
                                        !.error = "KeyError", !.quiet = thr[t].quiet,
                                        !.scanned = thr[t].scanned,
                                        !.snapshot = thr[t].snapshot]]
    /\ UNCHANGED <<subscribed, jobs, enabled, last, hist, matchVars>>

\* subscribe / unsubscribe, lines 65 / 71: the key is built
BeginMutation(t, op, topic, task) ==
    /\ thr[t].pc = "idle"
    /\ IF ~topic_to_re(topic).ok
       THEN /\ res' = [res EXCEPT ![t] = [NoResult EXCEPT !.op = op, !.topic = topic,
                                                          !.error = "re.error"]]
            /\ UNCHANGED thr
       ELSE /\ thr' = [o \in Threads |->
                         IF o = t
                         THEN [IdleThread EXCEPT !.pc = "member", !.op = op,
                                                 !.topic = topic, !.task = task,
                                                 !.key = Key(topic, task)]
                         ELSE [thr[o] EXCEPT !.quiet = FALSE]]
            /\ res' = [res EXCEPT ![t] = NoResult]
    /\ UNCHANGED <<subscribed, jobs, enabled, last, hist, matchVars>>

\* subscribe, line 66: key not in self.subscribed; unsubscribe, line 72:
\* key in self.subscribed
MemberTest(t) ==
    /\ thr[t].pc = "member"
    /\ IF (thr[t].op = "subscribe") = (thr[t].key \notin subscribed)
       THEN /\ thr' = [thr EXCEPT ![t].pc = "mutate"]
            /\ UNCHANGED res
       ELSE /\ thr' = [thr EXCEPT ![t] = IdleThread]
            /\ res' = [res EXCEPT ![t] = [NoResult EXCEPT !.op = thr[t].op,
                                                          !.topic = thr[t].topic]]
    /\ UNCHANGED <<subscribed, jobs, enabled, last, hist, matchVars>>

\* subscribe, line 67: self.subscribed.add(key)
RegistryAdd(t) ==
    /\ thr[t].pc = "mutate"
    /\ thr[t].op = "subscribe"
    /\ subscribed' = subscribed \cup {thr[t].key}
    /\ thr' = (t :> [thr[t] EXCEPT !.pc = "reset"]) @@ Noticed(t, subscribed')
    /\ UNCHANGED <<jobs, enabled, last, hist, matchVars, res>>

\* unsubscribe, line 73: self.subscribed.discard(key)
RegistryDiscard(t) ==
    /\ thr[t].pc = "mutate"
    /\ thr[t].op = "unsubscribe"
    /\ subscribed' = Discard(subscribed, thr[t].key)
    /\ thr' = (t :> [thr[t] EXCEPT !.pc = "reset"]) @@ Noticed(t, subscribed')
    /\ UNCHANGED <<jobs, enabled, last, hist, matchVars, res>>

\* subscribe / unsubscribe, lines 68 / 74: self.jobs = {}
CacheReset(t) ==
    /\ thr[t].pc = "reset"
    /\ jobs' = Invalidate(jobs)
    /\ thr' = [thr EXCEPT ![t] = IdleThread]
    /\ res' = [res EXCEPT ![t] = [NoResult EXCEPT !.op = thr[t].op,
                                                  !.topic = thr[t].topic]]
    /\ UNCHANGED <<subscribed, enabled, last, hist, matchVars>>

ConcNext ==
    \/ \E t \in Threads, op \in {"publish", "publish_now"}, topic \in ConcTopics :
          BeginPublish(t, op, topic, ScenarioArgs)
    \/ \E t \in Threads : CacheTest(t)
    \/ \E t \in Threads : ScanBegin(t)
    \/ \E t \in Threads : ScanStep(t)
    \/ \E t \in Threads : CacheStore(t)
    \/ \E t \in Threads : CacheLookup(t)
    \/ \E t \in Threads, op \in {"subscribe", "unsubscribe"},
          topic \in ConcPatterns, task \in Tasks :
          BeginMutation(t, op, topic, task)
    \/ \E t \in Threads : MemberTest(t)
    \/ \E t \in Threads : RegistryAdd(t)
    \/ \E t \in Threads : RegistryDiscard(t)
    \/ \E t \in Threads : CacheReset(t)

ConcSpec == Init /\ [][ConcNext]_vars

(***************************************************************************)
(* Matcher development: _topic_to_re(pattern) followed by                   *)
(* Pattern.match(topic), for every pattern and topic within the bounds and  *)
(* for the topics and patterns the documentation names.                     *)
(***************************************************************************)
MatchPatterns == SeqsUpTo(PatAlphabet, MaxPatLen)
MatchTopics == SeqsUpTo(TopAlphabet, MaxTopLen)

ExamplePairs ==
    { <<<<"a", ".", "*", ".", "c">>, <<"a", ".", "b", ".", "c">>>>,
      <<<<"a", ".", "*", ".", "c">>, <<"a", ".", "b", ".", "b", ".", "c">>>>,
      <<<<"a", ".", "*", ".", "c">>, <<"a", ".", ".", "c">>>>,
      <<<<"a", "b", "*", "c", "d">>, <<"a", "b", "x", "x", "c", "d">>>>,
      <<<<"a", "b", "*", "c", "d">>, <<"a", "b", "c", "d">>>>,
      <<<<"a", "b", "*", "c", "d">>, <<"a", "b", "x", ".", "x", "c", "d">>>>,
      <<<<"a", ".", "#">>, <<"a", ".", "b", ".", "c", ".", "d">>>>,
      <<<<"a", ".", "#">>, <<"a", ".", "x">>>>,
      <<<<"a", ".", "#">>, <<"a">>>>,
      <<<<"a", ".", "#">>, <<"a", ".">>>> }

\* what the caller of _topic_to_re(pattern).match(topic) sees
MatchOutcome(pattern, topic) ==
    LET re == topic_to_re(pattern) IN
    IF ~re.ok THEN "error"
    ELSE IF re_match(re, topic) THEN "match" ELSE "nomatch"

MatchInit ==
    /\ MgrInit
    /\ ThreadInit
    /\ \E pair \in (MatchPatterns \X MatchTopics) \cup ExamplePairs :
          /\ mPattern = pair[1]
          /\ mTopic = pair[2]
    /\ mResult = "pending"

MatchApply ==
    /\ mResult = "pending"
    /\ mResult' = MatchOutcome(mPattern, mTopic)
    /\ UNCHANGED <<mPattern, mTopic>>
    /\ UNCHANGED <<mgrVars, threadVars>>

MatchNext == MatchApply

MatchSpec == MatchInit /\ [][MatchNext]_vars

(***************************************************************************)
(* Properties of the manager (specification Spec)                           *)
(***************************************************************************)
PublishOps == {"publish", "publish_now"}

Count(group, task) == Cardinality({n \in DOMAIN group : group[n].task = task})

\* the registry entries of `task` whose pattern, compiled afresh, matches `topic`
MatchingEntries(task, topic) ==
    {job \in subscribed : job[3] = task /\ MatchOutcome(job[1], topic) = "match"}

\* the group of the last call holds one invocation per matching entry of the
\* registry as it stands, and nothing else
DispatchedExactly ==
    \A task \in Tasks :
        Count(last.dispatched, task) = Cardinality(MatchingEntries(task, last.topic))

EntriesFor(topic, task) == {job \in subscribed : job[1] = topic /\ job[3] = task}

\* C1: a publish of a topic that was in the cache when an entry was added to
\* or removed from the registry, and has not been published since, dispatches
\* exactly the handlers of the matching entries of the registry as it is now.
C1_CacheCorrectAfterMutation ==
    (last.op \in PublishOps /\ last.stale)
        => (~last.raised /\ DispatchedExactly)

\* the topic was cached without WatchTask, WatchTask was subscribed, and the
\* next publish dispatches to it
C1_Witness ==
    /\ last.op = "publish"
    /\ last.stale
    /\ ~last.old
    /\ last.scanned
    /\ Count(last.dispatched, WatchTask) > 0

C3_RemovalTakesEffect ==
    /\ (last.op = "unsubscribe" /\ ~last.raised)
          => EntriesFor(last.topic, last.task) = {}
    /\ hist.watch = "removed" =>
          /\ EntriesFor(WatchTopic, WatchTask) = {}
          /\ (/\ last.op \in PublishOps
              /\ last.gate
              /\ MatchOutcome(WatchTopic, last.topic) = "match"
              /\ MatchingEntries(WatchTask, last.topic) = {})
             => Count(last.dispatched, WatchTask) = 0

C3_Witness ==
    /\ hist.watch = "removed"
    /\ last.op = "publish"
    /\ last.stale
    /\ last.old
    /\ last.topic = TopicAA
    /\ last.dispatched # <<>>
    /\ Count(last.dispatched, WatchTask) = 0

\* C4: with the gate closed, publish and publish_now dispatch the empty group,
\* do not call get_jobs, and leave the registry and the cache as they were.
C4_GateClosed ==
    [][(~enabled /\ last'.op \in PublishOps)
          => /\ subscribed' = subscribed
             /\ jobs' = jobs
             /\ enabled' = enabled
             /\ last'.dispatched = <<>>
             /\ ~last'.consulted
             /\ ~last'.raised]_vars

C4_Witness ==
    /\ last.op \in PublishOps
    /\ ~last.gate
    /\ ~enabled
    /\ last.dispatched = <<>>
    /\ last.topic \notin DOMAIN jobs
    /\ \E task \in Tasks : MatchingEntries(task, last.topic) # {}

\* C5: set_enabled changes the flag alone; subscribe and unsubscribe add and
\* remove their entry whatever the flag; and a publish after the gate was
\* closed and opened again dispatches exactly the handlers of the matching
\* entries of the registry as it is now.
C5_GateReopened ==
    /\ [][/\ last'.op = "set_enabled" => (subscribed' = subscribed /\ jobs' = jobs)
          /\ (last'.op = "subscribe" /\ ~last'.raised)
                => /\ subscribed' = subscribed \cup {Key(last'.topic, last'.task)}
                   /\ enabled' = enabled
          /\ (last'.op = "unsubscribe" /\ ~last'.raised)
                => /\ subscribed' = subscribed \ {Key(last'.topic, last'.task)}
                   /\ enabled' = enabled]_vars
    /\ []((/\ hist.gate \in {"reopened", "reopened_mutated"}
           /\ last.op \in PublishOps
           /\ last.gate)
          => (~last.raised /\ DispatchedExactly))

\* the registry changed while the gate was closed, the gate was opened, and
\* the publish of a topic that was cached without WatchTask dispatches to it
C5_Witness ==
    /\ hist.gate = "reopened_mutated"
    /\ last.op = "publish"
    /\ last.gate
    /\ last.stale
    /\ ~last.old
    /\ Count(last.dispatched, WatchTask) > 0

\* C9: subscribe with a pattern that does not compile raises and leaves the
\* registry and the cache as they were; every entry of the registry holds a
\* compiled pattern, and no publish raises.
C9_MalformedPatternRejected ==
    /\ [][(last'.op = "subscribe" /\ ~topic_to_re(last'.topic).ok)
             => (subscribed' = subscribed /\ jobs' = jobs)]_vars
    /\ [](/\ (last.op = "subscribe" /\ ~topic_to_re(last.topic).ok) => last.raised
          /\ \A job \in subscribed : job[2].ok
          /\ last.op \in PublishOps => ~last.raised)

C9_Witness ==
    /\ last.op = "subscribe"
    /\ last.topic = BadPattern
    /\ last.raised
    /\ subscribed # {}
    /\ jobs # NoJobs

\* C10 (as claimed): unsubscribe of an entry that is not in the registry
\* returns without raising, whatever the pattern string.
C10_UnsubscribeAbsentNeverRaises ==
    (last.op = "unsubscribe" /\ ~last.present) => ~last.raised

(***************************************************************************)
(* Properties of the matcher (specification MatchSpec)                      *)
(***************************************************************************)
Matched == mResult \in {"match", "nomatch"}

\* the pattern with its i-th character replaced by the characters r
Subst(pattern, i, r) ==
    SubSeq(pattern, 1, i - 1) \o r \o SubSeq(pattern, i + 1, Len(pattern))

\* the non-empty runs of consecutive characters of the topic
Runs(topic) == {SubSeq(topic, a, b) : a \in 1..Len(topic), b \in 1..Len(topic)} \ {<<>>}

DotFree(r) == \A n \in DOMAIN r : r[n] # "."

Str_a_star_c == <<"a", ".", "*", ".", "c">>
Str_ab_star_cd == <<"a", "b", "*", "c", "d">>
Str_a_hash == <<"a", ".", "#">>

\* C6: a pattern with `*` at some place matches a topic exactly when the
\* pattern with one non-empty run of characters other than `.` written in
\* that place matches it (also with `*` inside a literal); `a.*.c` matches
\* `a.b.c` and neither `a.b.b.c` nor `a..c`.
C6_StarMatchesOneSegment ==
    Matched =>
      /\ \A i \in DOMAIN mPattern :
            mPattern[i] = "*" =>
               ((mResult = "match") <=>
                  \E r \in Runs(mTopic) :
                      DotFree(r) /\ MatchOutcome(Subst(mPattern, i, r), mTopic) = "match")
      /\ mPattern = Str_a_star_c =>
            ((mResult = "match") <=> (mTopic = <<"a", ".", "b", ".", "c">>))
      /\ mPattern = Str_ab_star_cd =>
            ((mResult = "match") <=> (mTopic = <<"a", "b", "x", "x", "c", "d">>))

C6_Witness ==
    /\ mPattern = <<"a", "*", "a">>
    /\ mTopic = <<"a", NL, "a">>
    /\ mResult = "match"

\* C7 (as claimed): a pattern with `#` at some place matches a topic exactly
\* when the pattern with one non-empty run of characters of any kind written
\* in that place matches it; `a.#` matches `a.b.c.d` and `a.x` and neither
\* `a` nor `a.`.
C7_HashMatchesOneOrMoreChars ==
    Matched =>
      /\ \A i \in DOMAIN mPattern :
            mPattern[i] = "#" =>
               ((mResult = "match") <=>
                  \E r \in Runs(mTopic) :
                      MatchOutcome(Subst(mPattern, i, r), mTopic) = "match")
      /\ (mPattern = Str_a_hash /\ mTopic \in {<<"a", ".", "b", ".", "c", ".", "d">>,
                                               <<"a", ".", "x">>})
            => mResult = "match"
      /\ (mPattern = Str_a_hash /\ mTopic \in {<<"a">>, <<"a", ".">>})
            => mResult = "nomatch"

\* the topic pattern format read character by character over the whole
\* topic: `*` one non-empty run without `.`, `#` one non-empty run, every
\* other character itself
RECURSIVE WireMatch(_, _)
WireMatch(pattern, topic) ==
    IF pattern = <<>> THEN topic = <<>>
    ELSE CASE Head(pattern) = "*" ->
                \E k \in 1..Len(topic) :
                    /\ DotFree(SubSeq(topic, 1, k))
                    /\ WireMatch(Tail(pattern), SubSeq(topic, k + 1, Len(topic)))
           [] Head(pattern) = "#" ->
                \E k \in 1..Len(topic) :
                    WireMatch(Tail(pattern), SubSeq(topic, k + 1, Len(topic)))
           [] OTHER ->
                /\ topic # <<>>
                /\ Head(topic) = Head(pattern)
                /\ WireMatch(Tail(pattern), Tail(topic))

Plain(pattern) == \A n \in DOMAIN pattern : pattern[n] \notin {"(", ")"}
WildcardFree(pattern) == \A n \in DOMAIN pattern : pattern[n] \notin {"*", "#"}

\* C8 (as claimed, for the patterns without parentheses): a pattern matches a
\* topic only when the whole topic is consumed with every character of the
\* pattern other than `*` and `#` matching itself, and a pattern without
\* wildcards matches exactly the topic equal to it.
C8_FullStringLiteralMatch ==
    (Matched /\ Plain(mPattern)) =>
      /\ (mResult = "match") => WireMatch(mPattern, mTopic)
      /\ WildcardFree(mPattern) => ((mResult = "match") <=> (mTopic = mPattern))

(***************************************************************************)
(* Properties of the decorator and of the call arguments                   *)
(***************************************************************************)

\* C11: arguments are bound per call: with the gate open the invocations a
\* publish or publish_now dispatches carry exactly the arguments of that call,
\* also when the group comes from the cache, and the cached signatures never
\* hold arguments of a call
C11_ArgumentsBoundPerCall ==
    /\ (last.op \in PublishOps /\ last.gate /\ ~last.raised) =>
          \A n \in DOMAIN last.dispatched : last.dispatched[n].args = last.args
    /\ \A t \in DOMAIN jobs : \A n \in DOMAIN jobs[t] : jobs[t][n].args = <<>>

\* a publish served from a cache entry that a publish with other arguments
\* filled, dispatching at least one invocation
C11_Witness ==
    /\ last.op \in PublishOps
    /\ last.gate
    /\ last.consulted
    /\ ~last.scanned
    /\ last.dispatched # <<>>
    /\ last.topic \in DOMAIN hist.filled
    /\ hist.filled[last.topic] # last.args

\* C12: subscribe_to(topic) applied to any callable, for a pattern that
\* compiles, returns a task and leaves the entry (topic, that task) in the
\* registry; a callable that is a Task is subscribed as itself with no task
\* declared, a plain callable under the name task_name derives
C12_SubscribeToRegistersAnyCallable ==
    (last.op = "subscribe_to" /\ topic_to_re(last.topic).ok) =>
        /\ ~last.raised
        /\ last.task # NoTask
        /\ Key(last.topic, last.task) \in subscribed

(***************************************************************************)
(* Invariants and frame conditions of the manager, calls run one at a time *)
(***************************************************************************)

\* C13: cache invariant: in every state the cache is empty or, for every
\* topic it holds, the cached group has one signature per entry of the
\* current registry whose pattern matches the topic, and nothing else
C13_CacheInvariant ==
    \A t \in DOMAIN jobs :
        /\ \A task \in Tasks :
              Count(jobs[t], task) = Cardinality(MatchingEntries(task, t))
        /\ \A n \in DOMAIN jobs[t] : jobs[t][n].task \in Tasks

\* both topics are cached, one with a handler and one without, after the
\* watched entry was removed from the registry
C13_Witness ==
    /\ DOMAIN jobs = PubTopics
    /\ jobs[TopicAA] # <<>>
    /\ jobs[TopicAAA] = <<>>
    /\ hist.watch = "removed"

C18_OneInvocationPerMatchingEntry ==
    (last.op \in PublishOps /\ last.gate /\ ~last.raised) =>
        /\ \A task \in Tasks :
              Count(last.dispatched, task) = Cardinality(MatchingEntries(task, last.topic))
        /\ Len(last.dispatched) =
              Cardinality({job \in subscribed : MatchOutcome(job[1], last.topic) = "match"})

\* a publish of a topic that two patterns of handler T1 match and one pattern
\* of handler T2: T1 is invoked twice, T2 once
C18_Witness ==
    /\ last.op \in PublishOps
    /\ last.gate
    /\ last.topic = TopicAA
    /\ Count(last.dispatched, T1) = 2
    /\ Count(last.dispatched, T2) = 1

\* C19: no-op mutations keep the cache: a subscribe of an entry that is
\* registered and an unsubscribe of an entry that is not registered leave
\* the registry and the cache as they were
C19_NoOpMutationKeepsCache ==
    [][ (\/ last'.op = "subscribe" /\ last'.present
         \/ last'.op = "unsubscribe" /\ ~last'.present)
            => (subscribed' = subscribed /\ jobs' = jobs) ]_vars

\* a subscribe of a registered entry returned and the cache still holds both
\* topics
C19_Witness ==
    /\ last.op = "subscribe"
    /\ last.present
    /\ DOMAIN jobs = PubTopics

\* C20: frame of publish: with the gate open a publish or publish_now of T
\* leaves the registry and the gate as they were, keeps every cached entry,
\* adds at most the entry of T, and when T was cached dispatches the cached
\* group without a scan of the registry
C20_PublishFrame ==
    [][ (last'.op \in PublishOps /\ enabled) =>
            /\ subscribed' = subscribed
            /\ enabled' = enabled
            /\ \A t \in DOMAIN jobs : t \in DOMAIN jobs' /\ jobs'[t] = jobs[t]
            /\ DOMAIN jobs' \subseteq (DOMAIN jobs \cup {last'.topic})
            /\ last'.topic \in DOMAIN jobs =>
                  /\ ~last'.scanned
                  /\ last'.dispatched = Bind(jobs[last'.topic], last'.args) ]_vars

\* a publish that reused the entry an earlier publish stored, while the other
\* topic is cached too
C20_Witness ==
    /\ last.op \in PublishOps
    /\ last.gate
    /\ last.consulted
    /\ ~last.scanned
    /\ Len(last.dispatched) >= 2
    /\ DOMAIN jobs = PubTopics

(***************************************************************************)
(* Properties of the manager under concurrent calls                        *)
(***************************************************************************)

\* C15: a publish that ran while no subscribe or unsubscribe was in progress
\* (each one had returned before the publish began, none began before it
\* returned) dispatches one invocation per matching entry of the registry,
\* never a set computed from the registry of before a mutation
C15_NoStaleDispatchAfterMutation ==
    \A t \in Threads :
        (res[t].op \in PublishOps /\ res[t].error = "none" /\ res[t].quiet)
            => res[t].exact

\* C16: the list a scan of the registry builds during a publish is the set
\* of matching handlers of the registry as it stood at one moment of that call
C16_SingleSnapshotScan ==
    \A t \in Threads :
        (res[t].op \in PublishOps /\ res[t].scanned /\ res[t].error = "none")
            => res[t].snapshot

\* C17: with the gate open get_jobs returns a group and never fails on a
\* missing cache key
C17_GetJobsNeverMissesKey ==
    \A t \in Threads : res[t].op \in PublishOps => res[t].error # "KeyError"

====
